---- MODULE Spec2Model ----
(***************************************************************************)
(* Model of two services of ivanrbnc/k8s-ecommerce:                        *)
(*   - cart-service  (src/cart-service/main.go): carts kept as one JSON    *)
(*     value per user in a key-value store, read-modify-written by         *)
(*     concurrent HTTP handlers;                                           *)
(*   - order-service (src/unnamed/part_000): orders and their line items   *)
(*     written in one relational transaction, read back by two handlers.   *)
(* Each HTTP request runs on its own goroutine; a worker slot below is one *)
(* such goroutine.  A handler is cut into steps at its store calls: the    *)
(* local code between two store calls belongs to the step of the call      *)
(* before it.                                                              *)
(***************************************************************************)
EXTENDS Integers, Sequences, FiniteSets, TLC

VARIABLES
    \* ---- cart-service ----
    kv,         \* the key-value store: key -> stored JSON value or Nil
    cpc,        \* per worker: position in its handler
    creq,       \* per worker: the request it serves (op, userId, body)
    cartData,   \* per worker: the raw value rdb.Get returned
    cart,       \* per worker: the handler's local Cart
    cresp,      \* the HTTP response written last
    writes,     \* history: per key, the last writes the store applied (request, value its handler had read)
    issued,     \* number of cart requests accepted so far
    \* ---- order-service ----
    orders,     \* committed rows of table orders
    order_items,\* committed rows of table order_items, in insertion order
    seq,        \* next value of the SERIAL sequence of orders.id
    clock,      \* the time: every transaction begins at a later time than the one before
    opc,        \* per worker: position in its handler
    oreq,       \* per worker: the request it serves
    tx,         \* per worker: its open transaction (the rows it wrote, uncommitted)
    orderID,    \* per worker: createOrderHandler's local orderID
    rows,       \* per worker: the cursor rows of getUserOrdersHandler
    result,     \* per worker: the orders getUserOrdersHandler has collected, the order getOrderDetailHandler has read
    oresp,      \* the HTTP response written last
    oissued,    \* number of order requests accepted so far
    aborted     \* history: the ids the sequence handed to transactions that were rolled back

cartVars  == <<kv, cpc, creq, cartData, cart, cresp, writes, issued>>
orderVars == <<orders, order_items, seq, clock, opc, oreq, tx, orderID, rows, result, oresp, oissued, aborted>>
vars      == <<cartVars, orderVars>>

----------------------------------------------------------------------------
(* Bounds of the model *)

MaxRequests == 3      \* requests the cart service accepts

CartWorkers == {1, 2} \* goroutines serving requests at the same time
Users       == {"u1", "u2"}
Products    == {1, 2}
Qtys        == {1, 2}

----------------------------------------------------------------------------
(* Generic helpers *)

\* the last two elements of s
LastTwo(s) == IF Len(s) <= 2 THEN s ELSE SubSeq(s, Len(s) - 1, Len(s))

RECURSIVE SelectSeqBy(_, _)
\* the subsequence of s whose elements satisfy Test, written without a
\* higher-order argument: keep[i] tells whether s[i] stays
SelectSeqBy(s, keep) ==
    IF s = <<>> THEN <<>>
    ELSE IF keep[1]
         THEN <<s[1]>> \o SelectSeqBy(Tail(s), [i \in 1..(Len(s) - 1) |-> keep[i + 1]])
         ELSE SelectSeqBy(Tail(s), [i \in 1..(Len(s) - 1) |-> keep[i + 1]])

----------------------------------------------------------------------------
(* cart-service: values *)

Nil == [nil |-> TRUE]                 \* redis.Nil: no value stored under the key
StatusOK == 200
StatusCreated == 201
StatusBadRequest == 400
StatusNotFound == 404
StatusInternalServerError == 500

\* the key of a user's cart: "cart:"+userID
Keys == [userID \in Users |-> "cart:" \o userID]
Key(userID) == Keys[userID]

CartItem(p, q) == [ProductID |-> p, Quantity |-> q]
Cart(userID, items) == [UserID |-> userID, Items |-> items]
EmptyCart(userID) == Cart(userID, <<>>)

\* json.Marshal of a Cart: the struct tags rename the fields
Marshal(c) ==
    [user_id |-> c.UserID,
     items   |-> [i \in 1..Len(c.Items) |->
                    [product_id |-> c.Items[i].ProductID,
                     quantity   |-> c.Items[i].Quantity]]]

\* json.Unmarshal of a stored value into a Cart
Unmarshal(j) ==
    [UserID |-> j.user_id,
     Items  |-> [i \in 1..Len(j.items) |->
                    [ProductID |-> j.items[i].product_id,
                     Quantity  |-> j.items[i].quantity]]]

\* the request bodies a client may send: one that does not decode, or an object
BadBody == [bad |-> TRUE]
AddBodies == {BadBody} \cup {[product_id |-> p, quantity |-> q] : p \in Products, q \in Qtys}
RemoveBodies == {BadBody} \cup {[product_id |-> p] : p \in Products}

ErrorBody(msg) == [error |-> msg]
Response(handler, status, body) == [handler |-> handler, status |-> status, body |-> body]
NoResponse == [handler |-> "none", status |-> 0, body |-> [none |-> TRUE]]
NoRequest == [op |-> "none"]
NoCart == [none |-> TRUE]

\* the index of the first entry of items with product p, 0 if there is none
IndexOf(items, p) ==
    IF \E i \in 1..Len(items) : items[i].ProductID = p
    THEN CHOOSE i \in 1..Len(items) :
            /\ items[i].ProductID = p
            /\ \A k \in 1..(i - 1) : items[k].ProductID # p
    ELSE 0

\* addToCartHandler's merge loop: increment the first matching entry, else append
AddItemAppendAlways(items, newItem) == Append(items, newItem)
AddItemOverwrite(items, newItem) ==
    LET i == IndexOf(items, newItem.ProductID) IN
    IF i # 0 THEN [items EXCEPT ![i].Quantity = newItem.Quantity]
    ELSE Append(items, newItem)
AddItem(items, newItem) ==
    LET i == IndexOf(items, newItem.ProductID) IN
    IF i # 0 THEN [items EXCEPT ![i].Quantity = @ + newItem.Quantity]
    ELSE Append(items, newItem)

\* removeFromCartHandler's filter loop: keep every entry of another product
RemoveItemFirstOnlyDecrement(items, p) ==
    LET i == IndexOf(items, p) IN
    IF i # 0 /\ items[i].Quantity > 1
    THEN [items EXCEPT ![i].Quantity = @ - 1]
    ELSE SelectSeqBy(items, [k \in 1..Len(items) |-> items[k].ProductID # p])
RemoveItem(items, p) ==
    SelectSeqBy(items, [k \in 1..Len(items) |-> items[k].ProductID # p])

\* rdb.Set(key, value, 0): unconditional overwrite; rdb.Del(key)
SetIfUnchanged(store, key, value, seen) ==
    IF store[key] = seen THEN [store EXCEPT ![key] = value] ELSE store
Set(store, key, value, seen) == [store EXCEPT ![key] = value]
DelKeepsValue(store, key) == store
Del(store, key) == [store EXCEPT ![key] = Nil]

\* the body getCartHandler answers when rdb.Get finds no value (redis.Nil)
GetNilBody(userID) == Marshal(EmptyCart(userID))

\* the status and body clearCartHandler answers after rdb.Del
ClearStatus(ok) == IF ok THEN StatusOK ELSE StatusInternalServerError
ClearBody(ok) ==
    IF ok THEN [message |-> "Cart cleared successfully"]
    ELSE ErrorBody("Failed to clear cart")

----------------------------------------------------------------------------
(* cart-service: handlers *)

CartInit ==
    /\ kv = [k \in {Key(u) : u \in Users} |-> Nil]
    /\ cpc = [w \in CartWorkers |-> "idle"]
    /\ creq = [w \in CartWorkers |-> NoRequest]
    /\ cartData = [w \in CartWorkers |-> Nil]
    /\ cart = [w \in CartWorkers |-> NoCart]
    /\ cresp = NoResponse
    /\ writes = [k \in {Key(u) : u \in Users} |-> <<>>]
    /\ issued = 0

\* a request arrives at worker w: a new goroutine serves it
CartAccept(w) ==
    /\ cpc[w] = "idle"
    /\ issued < MaxRequests
    /\ issued' = issued + 1

\* a handler returns: its response goes out and its goroutine, with its locals, ends
CartReturn(w, handler, status, body) ==
    /\ cresp' = Response(handler, status, body)
    /\ cpc' = [cpc EXCEPT ![w] = "idle"]
    /\ creq' = [creq EXCEPT ![w] = NoRequest]
    /\ cartData' = [cartData EXCEPT ![w] = Nil]
    /\ cart' = [cart EXCEPT ![w] = NoCart]
    /\ UNCHANGED orderVars

\* the store applied a write to key: remember the last two of them
Applied(key, request, seen) ==
    writes' = [writes EXCEPT ![key] = LastTwo(Append(@, [request |-> request, seen |-> seen]))]

\* GET /cart/{userId}; ok: whether rdb.Get succeeds
getCartHandler(w, userID, ok) ==
    /\ CartAccept(w)
    /\ IF ~ok
       THEN CartReturn(w, "get", StatusInternalServerError, ErrorBody("Failed to retrieve cart"))
       ELSE IF kv[Key(userID)] = Nil
       THEN CartReturn(w, "get", StatusOK, GetNilBody(userID))
       ELSE CartReturn(w, "get", StatusOK, Marshal(Unmarshal(kv[Key(userID)])))
    /\ UNCHANGED <<kv, writes>>

\* POST /cart/{userId}/add, up to its rdb.Set: decode the body, rdb.Get, the merge loop
addToCartHandler_Get(w, userID, body, ok) ==
    /\ CartAccept(w)
    /\ IF body = BadBody
       THEN CartReturn(w, "add", StatusBadRequest, ErrorBody("Invalid request body"))
       ELSE IF ~ok
       THEN CartReturn(w, "add", StatusInternalServerError, ErrorBody("Failed to retrieve cart"))
       ELSE LET newItem == CartItem(body.product_id, body.quantity)
                loaded  == IF kv[Key(userID)] = Nil THEN EmptyCart(userID)
                           ELSE Unmarshal(kv[Key(userID)])
            IN /\ creq' = [creq EXCEPT ![w] = [op |-> "add", userID |-> userID, body |-> body]]
               /\ cartData' = [cartData EXCEPT ![w] = kv[Key(userID)]]
               /\ cart' = [cart EXCEPT ![w] = Cart(loaded.UserID, AddItem(loaded.Items, newItem))]
               /\ cpc' = [cpc EXCEPT ![w] = "addSet"]
               /\ UNCHANGED <<cresp, orderVars>>
    /\ UNCHANGED <<kv, writes>>

\* POST /cart/{userId}/add: rdb.Set, then the response
addToCartHandler_Set(w, ok) ==
    /\ cpc[w] = "addSet"
    /\ IF ~ok
       THEN /\ CartReturn(w, "add", StatusInternalServerError, ErrorBody("Failed to save cart"))
            /\ UNCHANGED <<kv, writes>>
       ELSE /\ kv' = Set(kv, Key(creq[w].userID), Marshal(cart[w]), cartData[w])
            /\ Applied(Key(creq[w].userID), creq[w], cartData[w])
            /\ CartReturn(w, "add", StatusCreated, Marshal(cart[w]))
    /\ UNCHANGED issued

\* POST /cart/{userId}/remove, up to its rdb.Set: decode the body, rdb.Get, the filter loop
removeFromCartHandler_Get(w, userID, body, ok) ==
    /\ CartAccept(w)
    /\ IF body = BadBody
       THEN CartReturn(w, "remove", StatusBadRequest, ErrorBody("Invalid request body"))
       ELSE IF ~ok
       THEN CartReturn(w, "remove", StatusInternalServerError, ErrorBody("Failed to retrieve cart"))
       ELSE IF kv[Key(userID)] = Nil
       THEN CartReturn(w, "remove", StatusNotFound, ErrorBody("Cart not found"))
       ELSE LET loaded == Unmarshal(kv[Key(userID)]) IN
            /\ creq' = [creq EXCEPT ![w] = [op |-> "remove", userID |-> userID, body |-> body]]
            /\ cartData' = [cartData EXCEPT ![w] = kv[Key(userID)]]
            /\ cart' = [cart EXCEPT ![w] = Cart(loaded.UserID, RemoveItem(loaded.Items, body.product_id))]
            /\ cpc' = [cpc EXCEPT ![w] = "removeSet"]
            /\ UNCHANGED <<cresp, orderVars>>
    /\ UNCHANGED <<kv, writes>>

\* POST /cart/{userId}/remove: rdb.Set, then the response
removeFromCartHandler_Set(w, ok) ==
    /\ cpc[w] = "removeSet"
    /\ IF ~ok
       THEN /\ CartReturn(w, "remove", StatusInternalServerError, ErrorBody("Failed to save cart"))
            /\ UNCHANGED <<kv, writes>>
       ELSE /\ kv' = Set(kv, Key(creq[w].userID), Marshal(cart[w]), cartData[w])
            /\ Applied(Key(creq[w].userID), creq[w], cartData[w])
            /\ CartReturn(w, "remove", StatusOK, Marshal(cart[w]))
    /\ UNCHANGED issued

\* DELETE /cart/{userId}/clear; ok: whether rdb.Del succeeds
clearCartHandler(w, userID, ok) ==
    /\ CartAccept(w)
    /\ IF ok
       THEN /\ kv' = Del(kv, Key(userID))
            /\ Applied(Key(userID), [op |-> "clear", userID |-> userID], kv[Key(userID)])
       ELSE UNCHANGED <<kv, writes>>
    /\ CartReturn(w, "clear", ClearStatus(ok), ClearBody(ok))

CartNext ==
    \/ \E w \in CartWorkers, userID \in Users, ok \in BOOLEAN :
          getCartHandler(w, userID, ok)
    \/ \E w \in CartWorkers, userID \in Users, body \in AddBodies, ok \in BOOLEAN :
          addToCartHandler_Get(w, userID, body, ok)
    \/ \E w \in CartWorkers, ok \in BOOLEAN :
          addToCartHandler_Set(w, ok)
    \/ \E w \in CartWorkers, userID \in Users, body \in RemoveBodies, ok \in BOOLEAN :
          removeFromCartHandler_Get(w, userID, body, ok)
    \/ \E w \in CartWorkers, ok \in BOOLEAN :
          removeFromCartHandler_Set(w, ok)
    \/ \E w \in CartWorkers, userID \in Users, ok \in BOOLEAN :
          clearCartHandler(w, userID, ok)

----------------------------------------------------------------------------
(* order-service: bounds and inputs *)

MaxOrderRequests == 3     \* requests the order service accepts

OrderWorkers == {1, 2}    \* goroutines serving requests at the same time
ItemCounts   == {0, 1, 2} \* the lengths of the items arrays of the requests
OrderUsers   == {"u1", "u2"}
\* the items arrays of the requests: the first n lines of one basket
ItemArrays   == {[i \in 1..n |-> [product_id |-> i, quantity |-> i + 1]] : n \in ItemCounts}
\* totals are written in thousandths: 1999.98 for one line, 19.995 for more
TotalOf(items) == IF Len(items) = 1 THEN 1999980 ELSE 19995
\* the bodies of POST /orders: one that does not decode, three with a required field
\* empty, and a complete one for each user and each non-empty items array
OrderBodies  ==
    {BadBody}
    \cup {[user_id |-> "", items |-> it, total |-> TotalOf(it)] : it \in {<<>>, [i \in 1..1 |-> [product_id |-> i, quantity |-> i + 1]]}}
    \cup {[user_id |-> "u1", items |-> <<>>, total |-> TotalOf(<<>>)]}
    \cup {[user_id |-> u, items |-> it, total |-> TotalOf(it)] :
            u \in OrderUsers, it \in ItemArrays \ {<<>>}}
\* the {orderId} path segment: a number, or text that is none
OrderIdParams == {[numeric |-> FALSE, int |-> 0], [numeric |-> TRUE, int |-> 1]}

----------------------------------------------------------------------------
(* order-service: values *)

OrderItem(p, q) == [ProductID |-> p, Quantity |-> q]

\* json decoding of the body of POST /orders into orderRequest
DecodeOrderRequest(body) ==
    [UserID |-> body.user_id,
     Items  |-> [i \in 1..Len(body.items) |->
                   OrderItem(body.items[i].product_id, body.items[i].quantity)],
     Total  |-> body.total]

\* json encoding of an Order
EncodeOrder(o) ==
    [id         |-> o.ID,
     user_id    |-> o.UserID,
     items      |-> [i \in 1..Len(o.Items) |->
                       [product_id |-> o.Items[i].ProductID, quantity |-> o.Items[i].Quantity]],
     total      |-> o.Total,
     status     |-> o.Status,
     created_at |-> o.CreatedAt]
EncodeOrders(os) == [array |-> [i \in 1..Len(os) |-> EncodeOrder(os[i])]]

\* column total DECIMAL(10, 2): a value in thousandths is stored in hundredths, rounded
\* half away from zero; read back, it is a float again
ToDecimal2Truncated(thousandths) == thousandths \div 10
ToDecimal2(thousandths) == (thousandths + 5) \div 10
FromDecimal2(hundredths) == hundredths * 10

\* the validation at the head of createOrderHandler
MissingFieldsBoth(r) == r.UserID = "" /\ Len(r.Items) = 0
MissingFields(r) == r.UserID = "" \/ Len(r.Items) = 0

\* the row INSERT INTO orders writes, and the status it is given
InitialStatus == "pending"
OrderRow(id, r, ts) ==
    [id |-> id, user_id |-> r.UserID, total |-> ToDecimal2(r.Total),
     status |-> InitialStatus, created_at |-> ts]
ItemRow(id, item) == [order_id |-> id, product_id |-> item.ProductID, quantity |-> item.Quantity]

\* a transaction: the rows it has written and not yet committed
NoTx == [open |-> FALSE]
OpenTx(ts) == [open |-> TRUE, ts |-> ts, orders |-> <<>>, items |-> <<>>]

\* tx.Commit() and the deferred tx.Rollback(): what the tables hold afterwards
CommitOrders(committed, t) == committed \cup {t.orders[i] : i \in 1..Len(t.orders)}
CommitItems(committed, t) == committed \o t.items
RollbackOrdersKeepsWrites(committed, t) == committed \cup {t.orders[i] : i \in 1..Len(t.orders)}
RollbackOrders(committed, t) == committed
RollbackItems(committed, t) == committed

\* the message of createOrderHandler's 500 at each of its store calls
CreateErrorGeneric(step) == ErrorBody("Failed to create order")
CreateError(step) ==
    ErrorBody(CASE step = "begin"       -> "Failed to create order"
                [] step = "insertOrder" -> "Failed to create order"
                [] step = "insertItems" -> "Failed to create order items"
                [] step = "commit"      -> "Failed to commit order")

\* SELECT ... FROM orders WHERE user_id = $1 ORDER BY created_at DESC: the orderings of
\* the user's committed rows that are newest first (rows of one timestamp in any order)
OrdersOfUser(userID) ==
    LET mine == {o \in orders : o.user_id = userID} IN
    {s \in [1..Cardinality(mine) -> mine] :
        /\ \A i, j \in 1..Cardinality(mine) : i # j => s[i] # s[j]
        /\ \A i, j \in 1..Cardinality(mine) : i < j => s[i].created_at >= s[j].created_at}

\* SELECT product_id, quantity FROM order_items WHERE order_id = $1, scanned into items
ItemsOfOrder(id) ==
    LET found == SelectSeqBy(order_items, [i \in 1..Len(order_items) |-> order_items[i].order_id = id])
    IN [i \in 1..Len(found) |-> OrderItem(found[i].product_id, found[i].quantity)]

\* rows.Scan into an Order (its Items not yet set)
ScanOrder(row) ==
    [ID |-> row.id, UserID |-> row.user_id, Items |-> <<>>, Total |-> FromDecimal2(row.total),
     Status |-> row.status, CreatedAt |-> row.created_at]

\* getUserOrdersHandler when the item query of an order fails: continue
OnItemsErrorKeepOrder(acc, order) == Append(acc, order)
OnItemsError(acc, order) == acc

NoCursor == [open |-> FALSE]

----------------------------------------------------------------------------
(* order-service: handlers *)

OrderInit ==
    /\ orders = {}
    /\ order_items = <<>>
    /\ seq = 1
    /\ clock = 0
    /\ aborted = {}
    /\ opc = [w \in OrderWorkers |-> "idle"]
    /\ oreq = [w \in OrderWorkers |-> NoRequest]
    /\ tx = [w \in OrderWorkers |-> NoTx]
    /\ orderID = [w \in OrderWorkers |-> 0]
    /\ rows = [w \in OrderWorkers |-> NoCursor]
    /\ result = [w \in OrderWorkers |-> <<>>]
    /\ oresp = NoResponse
    /\ oissued = 0

\* a request arrives at worker w: a new goroutine serves it
OrderAccept(w) ==
    /\ opc[w] = "idle"
    /\ oissued < MaxOrderRequests
    /\ oissued' = oissued + 1

\* a handler returns: its response goes out and its goroutine, with its locals, ends
OrderReturn(w, handler, status, body) ==
    /\ oresp' = Response(handler, status, body)
    /\ opc' = [opc EXCEPT ![w] = "idle"]
    /\ oreq' = [oreq EXCEPT ![w] = NoRequest]
    /\ tx' = [tx EXCEPT ![w] = NoTx]
    /\ orderID' = [orderID EXCEPT ![w] = 0]
    /\ rows' = [rows EXCEPT ![w] = NoCursor]
    /\ result' = [result EXCEPT ![w] = <<>>]
    /\ UNCHANGED <<clock, cartVars>>

\* the deferred tx.Rollback() of a createOrderHandler that returns without committing;
\* id: the id the sequence had handed to the transaction
RolledBack(w, id) ==
    /\ orders' = RollbackOrders(orders, tx[w])
    /\ order_items' = RollbackItems(order_items, tx[w])
    /\ aborted' = aborted \cup {id}

\* POST /orders, up to db.Begin(): decode, validate, begin
createOrderHandler_Begin(w, body, ok) ==
    /\ OrderAccept(w)
    /\ IF body = BadBody
       THEN OrderReturn(w, "create", StatusBadRequest, ErrorBody("Invalid request body"))
       ELSE IF MissingFields(DecodeOrderRequest(body))
       THEN OrderReturn(w, "create", StatusBadRequest, ErrorBody("User ID and items are required"))
       ELSE IF ~ok
       THEN OrderReturn(w, "create", StatusInternalServerError, CreateError("begin"))
       ELSE /\ opc' = [opc EXCEPT ![w] = "insertOrder"]
            /\ oreq' = [oreq EXCEPT ![w] = DecodeOrderRequest(body)]
            /\ tx' = [tx EXCEPT ![w] = OpenTx(clock)]
            /\ clock' = clock + 1
            /\ UNCHANGED <<orderID, rows, result, oresp, cartVars>>
    /\ UNCHANGED <<orders, order_items, seq, aborted>>

\* POST /orders: INSERT INTO orders ... RETURNING id; burn: whether a failing insert
\* had drawn its id from the sequence (a sequence is not rolled back)
createOrderHandler_InsertOrder(w, ok, burn) ==
    /\ opc[w] = "insertOrder"
    /\ IF ok
       THEN /\ orderID' = [orderID EXCEPT ![w] = seq]
            /\ seq' = seq + 1
            /\ tx' = [tx EXCEPT ![w].orders = <<OrderRow(seq, oreq[w], tx[w].ts)>>]
            /\ opc' = [opc EXCEPT ![w] = "insertItems"]
            /\ UNCHANGED <<orders, order_items, aborted, oreq, rows, result, oresp, clock, cartVars>>
       ELSE /\ seq' = IF burn THEN seq + 1 ELSE seq
            /\ IF burn THEN RolledBack(w, seq)
               ELSE /\ orders' = RollbackOrders(orders, tx[w])
                    /\ order_items' = RollbackItems(order_items, tx[w])
                    /\ UNCHANGED aborted
            /\ OrderReturn(w, "create", StatusInternalServerError, CreateError("insertOrder"))
    /\ UNCHANGED oissued

\* POST /orders: INSERT INTO order_items for the next item of the request
createOrderHandler_InsertItem(w, ok) ==
    /\ opc[w] = "insertItems"
    /\ LET i == Len(tx[w].items) + 1 IN
       IF ok
       THEN /\ tx' = [tx EXCEPT ![w].items = Append(@, ItemRow(orderID[w], oreq[w].Items[i]))]
            /\ opc' = [opc EXCEPT ![w] = IF i = Len(oreq[w].Items) THEN "commit" ELSE "insertItems"]
            /\ UNCHANGED <<orders, order_items, aborted, oreq, orderID, rows, result, oresp, clock, cartVars>>
       ELSE /\ RolledBack(w, orderID[w])
            /\ OrderReturn(w, "create", StatusInternalServerError, CreateError("insertItems"))
    /\ UNCHANGED seq
    /\ UNCHANGED oissued

\* POST /orders: tx.Commit(), then the 201 with the Order built from the request
createOrderHandler_Commit(w, ok) ==
    /\ opc[w] = "commit"
    /\ IF ok
       THEN /\ orders' = CommitOrders(orders, tx[w])
            /\ order_items' = CommitItems(order_items, tx[w])
            /\ UNCHANGED aborted
            /\ OrderReturn(w, "create", StatusCreated,
                   EncodeOrder([ID |-> orderID[w], UserID |-> oreq[w].UserID,
                                Items |-> oreq[w].Items, Total |-> oreq[w].Total,
                                Status |-> InitialStatus, CreatedAt |-> clock]))
       ELSE /\ RolledBack(w, orderID[w])
            /\ OrderReturn(w, "create", StatusInternalServerError, CreateError("commit"))
    /\ UNCHANGED seq
    /\ UNCHANGED oissued

\* GET /orders/{userId}: the query of the user's orders
getUserOrdersHandler_Query(w, userID, ok) ==
    /\ OrderAccept(w)
    /\ IF ~ok
       THEN OrderReturn(w, "list", StatusInternalServerError, ErrorBody("Failed to retrieve orders"))
       ELSE \E s \in OrdersOfUser(userID) :
            /\ rows' = [rows EXCEPT ![w] = [open |-> TRUE, set |-> s, next |-> 1]]
            /\ oreq' = [oreq EXCEPT ![w] = [op |-> "list", userID |-> userID]]
            /\ opc' = [opc EXCEPT ![w] = "listRows"]
            /\ UNCHANGED <<tx, orderID, result, oresp, clock, cartVars>>
    /\ UNCHANGED <<orders, order_items, seq, aborted>>

\* GET /orders/{userId}: one turn of the loop over the rows: scan the row, query its items
getUserOrdersHandler_Items(w, ok) ==
    /\ opc[w] = "listRows"
    /\ rows[w].next <= Len(rows[w].set)
    /\ LET order == ScanOrder(rows[w].set[rows[w].next]) IN
       result' = [result EXCEPT ![w] =
                    IF ok THEN Append(@, [order EXCEPT !.Items = ItemsOfOrder(order.ID)])
                    ELSE OnItemsError(@, order)]
    /\ rows' = [rows EXCEPT ![w].next = @ + 1]
    /\ UNCHANGED <<orders, order_items, seq, aborted, opc, oreq, tx, orderID, oresp, clock, cartVars>>
    /\ UNCHANGED oissued

\* GET /orders/{userId}: the rows are exhausted, the orders collected are encoded
getUserOrdersHandler_Encode(w) ==
    /\ opc[w] = "listRows"
    /\ rows[w].next > Len(rows[w].set)
    /\ OrderReturn(w, "list", StatusOK, EncodeOrders(result[w]))
    /\ UNCHANGED <<orders, order_items, seq, aborted>>
    /\ UNCHANGED oissued

\* GET /orders/detail/{orderId}: the query of the order
getOrderDetailHandler_Query(w, orderId, ok) ==
    /\ OrderAccept(w)
    /\ IF ~ok \/ ~orderId.numeric
       THEN OrderReturn(w, "detail", StatusInternalServerError, ErrorBody("Failed to retrieve order"))
       ELSE IF ~\E o \in orders : o.id = orderId.int
       THEN OrderReturn(w, "detail", StatusNotFound, ErrorBody("Order not found"))
       ELSE /\ result' = [result EXCEPT ![w] = <<ScanOrder(CHOOSE o \in orders : o.id = orderId.int)>>]
            /\ oreq' = [oreq EXCEPT ![w] = [op |-> "detail", orderId |-> orderId]]
            /\ opc' = [opc EXCEPT ![w] = "detailItems"]
            /\ UNCHANGED <<tx, orderID, rows, oresp, clock, cartVars>>
    /\ UNCHANGED <<orders, order_items, seq, aborted>>

\* GET /orders/detail/{orderId}: the query of the order's items
getOrderDetailHandler_Items(w, ok) ==
    /\ opc[w] = "detailItems"
    /\ IF ~ok
       THEN OrderReturn(w, "detail", StatusInternalServerError, ErrorBody("Failed to retrieve order items"))
       ELSE OrderReturn(w, "detail", StatusOK,
                EncodeOrder([result[w][1] EXCEPT !.Items = ItemsOfOrder(result[w][1].ID)]))
    /\ UNCHANGED <<orders, order_items, seq, aborted>>
    /\ UNCHANGED oissued

OrderNext ==
    \/ \E w \in OrderWorkers, body \in OrderBodies, ok \in BOOLEAN :
          createOrderHandler_Begin(w, body, ok)
    \/ \E w \in OrderWorkers, ok \in BOOLEAN, burn \in BOOLEAN :
          createOrderHandler_InsertOrder(w, ok, burn)
    \/ \E w \in OrderWorkers, ok \in BOOLEAN :
          createOrderHandler_InsertItem(w, ok)
    \/ \E w \in OrderWorkers, ok \in BOOLEAN :
          createOrderHandler_Commit(w, ok)
    \/ \E w \in OrderWorkers, userID \in OrderUsers, ok \in BOOLEAN :
          getUserOrdersHandler_Query(w, userID, ok)
    \/ \E w \in OrderWorkers, ok \in BOOLEAN :
          getUserOrdersHandler_Items(w, ok)
    \/ \E w \in OrderWorkers :
          getUserOrdersHandler_Encode(w)
    \/ \E w \in OrderWorkers, orderId \in OrderIdParams, ok \in BOOLEAN :
          getOrderDetailHandler_Query(w, orderId, ok)
    \/ \E w \in OrderWorkers, ok \in BOOLEAN :
          getOrderDetailHandler_Items(w, ok)

----------------------------------------------------------------------------
(* The two services share nothing: each specification moves one of them *)

Init == CartInit /\ OrderInit

CartSpec == Init /\ [][CartNext]_vars

OrderSpec == Init /\ [][OrderNext]_vars
----------------------------------------------------------------------------
(* cart-service: properties *)

\* what a stored value holds: the items of the cart, none when no value is stored
ItemsOf(stored) == IF stored = Nil THEN <<>> ELSE Unmarshal(stored).Items
\* the quantity a list of items holds for product p, 0 when it has no entry
QtyOf(items, p) == IF IndexOf(items, p) = 0 THEN 0 ELSE items[IndexOf(items, p)].Quantity
\* the positions of the entries of product p
EntriesOf(items, p) == {i \in 1..Len(items) : items[i].ProductID = p}
\* the entries of the other products, in order
Others(items, p) == SelectSeqBy(items, [i \in 1..Len(items) |-> items[i].ProductID # p])
LastWrite(key) == writes[key][Len(writes[key])]

\* C4: every stored cart holds at most one CartItem per distinct product_id, after any
\* interleaving of add, remove and clear requests on any users, starting from no carts.
C4_CartUniqueness ==
    \A u \in Users : \A p \in Products :
        Cardinality(EntriesOf(ItemsOf(kv[Key(u)]), p)) <= 1

\* C4 witness: a stored cart with two entries, one of which has been added to twice
\* (its quantity exceeds every quantity a single request carries)
C4_Witness ==
    \E u \in Users :
        LET items == ItemsOf(kv[Key(u)]) IN
        /\ Len(items) = 2
        /\ \E i \in 1..2 : \A q \in Qtys : items[i].Quantity > q

\* the step in which worker w's add request writes the cart back, right after another
\* add of the same product was applied to the same cart and with nothing written in between
SecondAddWrites(w) ==
    /\ addToCartHandler_Set(w, TRUE)
    /\ writes[Key(creq[w].userID)] # <<>>
    /\ LastWrite(Key(creq[w].userID)).request.op = "add"
    /\ LastWrite(Key(creq[w].userID)).request.body.product_id = creq[w].body.product_id
    /\ cartData[w] = kv[Key(creq[w].userID)]

\* what holds after two adds of product p in a row, base being the quantity counted
\* for p before the first add
TwoAddsPost(w, base) ==
    LET k     == Key(creq[w].userID)
        p     == creq[w].body.product_id
        first == LastWrite(k)
        c0    == ItemsOf(first.seen)
        final == ItemsOf(kv'[k])
    IN /\ cresp' = Response("add", StatusCreated, kv'[k])
       /\ Cardinality(EntriesOf(final, p)) = 1
       /\ QtyOf(final, p) = base + first.request.body.quantity + creq[w].body.quantity
       /\ Others(final, p) = Others(c0, p)
       /\ IndexOf(final, p) = (IF IndexOf(c0, p) = 0 THEN Len(c0) + 1 ELSE IndexOf(c0, p))

\* C5 (as amended): after two adds of the same productId in a row on one cart, the cart has
\* exactly one entry for productId, with quantity = quantity the cart held for productId
\* before the first add (0 if none) + qty1 + qty2; every other entry and the relative
\* order of the entries are unchanged.
C5_TwoAddsAccumulate ==
    [][\A w \in CartWorkers :
         SecondAddWrites(w) =>
            TwoAddsPost(w, QtyOf(ItemsOf(LastWrite(Key(creq[w].userID)).seen),
                                 creq[w].body.product_id))]_vars

\* C5 as stated: after the two adds the quantity is qty1 + qty2.
C5_TwoAddsSumOnly ==
    [][\A w \in CartWorkers : SecondAddWrites(w) => TwoAddsPost(w, 0)]_vars

\* C5 witness: two adds of one product were applied in a row to a cart that held an entry
\* of another product, and the cart now holds that entry first and the sum second
C5_Witness ==
    \E u \in Users :
        LET h == writes[Key(u)] IN
        /\ Len(h) = 2
        /\ h[1].request.op = "add" /\ h[2].request.op = "add"
        /\ h[1].request.body.product_id = h[2].request.body.product_id
        /\ Len(ItemsOf(h[1].seen)) = 1
        /\ ItemsOf(h[1].seen)[1].ProductID # h[1].request.body.product_id
        /\ h[2].seen # h[1].seen
        /\ Len(ItemsOf(h[2].seen)) = 2
        /\ Len(ItemsOf(kv[Key(u)])) = 2
        /\ ItemsOf(kv[Key(u)])[2].Quantity = h[1].request.body.quantity + h[2].request.body.quantity
        /\ cresp.handler = "add" /\ cresp.status = StatusCreated

\* C6: a get that follows a remove of productId on the same cart answers a cart with no
\* entry for productId, whatever quantity the entry had; a remove for a user with no
\* stored cart answers 404 and stores nothing.
C6_RemoveThenGet ==
    [][\A w \in CartWorkers, u \in Users :
         /\ ( /\ writes[Key(u)] # <<>>
              /\ LastWrite(Key(u)).request.op = "remove"
              /\ getCartHandler(w, u, TRUE) )
            => /\ cresp'.handler = "get" /\ cresp'.status = StatusOK
               /\ cresp'.body.user_id = u
               /\ \A i \in 1..Len(cresp'.body.items) :
                     cresp'.body.items[i].product_id # LastWrite(Key(u)).request.body.product_id
               /\ Unmarshal(cresp'.body).Items =
                     Others(ItemsOf(LastWrite(Key(u)).seen), LastWrite(Key(u)).request.body.product_id)
         /\ \A body \in RemoveBodies \ {BadBody} :
              ( kv[Key(u)] = Nil /\ removeFromCartHandler_Get(w, u, body, TRUE) )
              => /\ cresp' = Response("remove", StatusNotFound, ErrorBody("Cart not found"))
                 /\ kv' = kv
                 /\ cpc'[w] = "idle"]_vars

\* C6 witness: the last response is a get's, of a cart from which an entry of quantity
\* above 1 was removed by the last write, leaving the cart without it
C6_Witness ==
    \E u \in Users :
        /\ writes[Key(u)] # <<>>
        /\ LastWrite(Key(u)).request.op = "remove"
        /\ QtyOf(ItemsOf(LastWrite(Key(u)).seen), LastWrite(Key(u)).request.body.product_id) > 1
        /\ cresp = Response("get", StatusOK, [user_id |-> u, items |-> <<>>])

\* C7 (as amended): a get that follows a clear the store carried out answers the empty
\* cart {user_id, items: []}, also when no cart existed before the clear; clear answers
\* "Cart cleared successfully" whether or not a cart existed, except when the store's
\* delete fails: then it answers 500 "Failed to clear cart" and the cart stays as it was.
C7_ClearThenGet ==
    [][\A w \in CartWorkers, u \in Users :
         /\ ( /\ writes[Key(u)] # <<>>
              /\ LastWrite(Key(u)).request.op = "clear"
              /\ getCartHandler(w, u, TRUE) )
            => cresp' = Response("get", StatusOK, [user_id |-> u, items |-> <<>>])
         /\ clearCartHandler(w, u, TRUE)
            => /\ cresp' = Response("clear", StatusOK, [message |-> "Cart cleared successfully"])
               /\ kv'[Key(u)] = Nil
         /\ clearCartHandler(w, u, FALSE)
            => /\ cresp' = Response("clear", StatusInternalServerError, ErrorBody("Failed to clear cart"))
               /\ kv' = kv]_vars

\* C7 as stated: clear always succeeds with the message "Cart cleared successfully".
C7_ClearAlwaysSucceeds ==
    [][\A w \in CartWorkers, u \in Users, ok \in BOOLEAN :
         clearCartHandler(w, u, ok)
            => cresp' = Response("clear", StatusOK, [message |-> "Cart cleared successfully"])]_vars

\* C7 witness: the last response is a get's empty cart for a user whose stored cart, written
\* by an add, was then removed by a clear
C7_Witness ==
    \E u \in Users :
        /\ Len(writes[Key(u)]) = 2
        /\ writes[Key(u)][1].request.op = "add"
        /\ writes[Key(u)][2].request.op = "clear"
        /\ writes[Key(u)][2].seen # Nil
        /\ kv[Key(u)] = Nil
        /\ cresp = Response("get", StatusOK, [user_id |-> u, items |-> <<>>])

\* C10: a cart write is an unconditional overwrite computed from what its own handler
\* read: the request answers success and the stored cart is its own read plus its own
\* change, whatever was written to the cart since the read, so that update is lost.
C10_WriteIgnoresInterveningWrites ==
    [][\A w \in CartWorkers :
         /\ addToCartHandler_Set(w, TRUE)
            => /\ cresp'.status = StatusCreated
               /\ \A p \in Products :
                    QtyOf(ItemsOf(kv'[Key(creq[w].userID)]), p) =
                       QtyOf(ItemsOf(cartData[w]), p)
                       + (IF p = creq[w].body.product_id THEN creq[w].body.quantity ELSE 0)
         /\ removeFromCartHandler_Set(w, TRUE)
            => /\ cresp'.status = StatusOK
               /\ \A p \in Products :
                    QtyOf(ItemsOf(kv'[Key(creq[w].userID)]), p) =
                       (IF p = creq[w].body.product_id THEN 0 ELSE QtyOf(ItemsOf(cartData[w]), p))]_vars

\* C10 witness: two adds of one product to one cart both read the same stored value, both
\* were answered 201, and the stored quantity is the later one's alone: the first is lost
C10_Witness ==
    \E u \in Users :
        LET h == writes[Key(u)] IN
        /\ Len(h) = 2
        /\ h[1].request.op = "add" /\ h[2].request.op = "add"
        /\ h[1].request.body.product_id = h[2].request.body.product_id
        /\ h[1].seen = h[2].seen
        /\ QtyOf(ItemsOf(kv[Key(u)]), h[2].request.body.product_id) =
              QtyOf(ItemsOf(h[2].seen), h[2].request.body.product_id) + h[2].request.body.quantity
        /\ cresp.handler = "add" /\ cresp.status = StatusCreated
----------------------------------------------------------------------------
(* order-service: properties *)

\* the ids of the orders a list of encoded or scanned orders holds
IdsOfRows(rs) == {rs[i].id : i \in 1..Len(rs)}
IdsOfOrders(os) == {os[i].ID : i \in 1..Len(os)}
\* the ids handed to transactions that were rolled back or are still open
Uncommitted ==
    aborted \cup {orderID[w] : w \in {x \in OrderWorkers : tx[x].open /\ orderID[x] # 0}}

\* a step in which a store call of createOrderHandler fails after the transaction began
CreateFailsInTx(w) ==
    \/ \E burn \in BOOLEAN : createOrderHandler_InsertOrder(w, FALSE, burn)
    \/ createOrderHandler_InsertItem(w, FALSE)
    \/ createOrderHandler_Commit(w, FALSE)

\* no table, no cursor, no collected order and no response holds an uncommitted id
NothingOfUncommitted ==
    \A id \in Uncommitted :
        /\ \A o \in orders : o.id # id
        /\ \A i \in 1..Len(order_items) : order_items[i].order_id # id
        /\ \A r \in OrderWorkers :
              /\ rows[r].open => id \notin IdsOfRows(rows[r].set)
              /\ id \notin IdsOfOrders(result[r])
        /\ (oresp.handler = "list" /\ oresp.status = StatusOK) => id \notin IdsOfRows(oresp.body.array)
        /\ (oresp.handler = "detail" /\ oresp.status = StatusOK) => oresp.body.id # id

\* C1: order creation is atomic: when the header insert, an item insert or the commit
\* fails, the handler returns at once (no further item is inserted), the tables are as
\* before, and in no state, then or later or while a creation is in progress, does a
\* table, or what a concurrent list or detail request has read, hold the order row of
\* the attempted id or an item row referencing it.
C1_Atomicity ==
    /\ []NothingOfUncommitted
    /\ [][\A w \in OrderWorkers :
            CreateFailsInTx(w) =>
               /\ orders' = orders
               /\ order_items' = order_items
               /\ opc'[w] = "idle" /\ tx'[w] = NoTx
               /\ oresp'.handler = "create" /\ oresp'.status = StatusInternalServerError]_vars

\* C1 witness: a creation failed at an item insert and was rolled back, and its id is known
C1_Witness ==
    /\ aborted # {}
    /\ oresp = Response("create", StatusInternalServerError, ErrorBody("Failed to create order items"))

\* what a successful commit of worker w's creation leaves: one new order row, whose
\* total (in hundredths) is the request's (in thousandths) exactly, or to the nearest
\* hundredth; the item rows of the request in input order; and the 201
CommittedAs(w, exact) ==
    LET id == orderID[w]
        r  == oreq[w]
    IN /\ \A o \in orders : o.id # id
       /\ \E row \in orders' :
             /\ orders' = orders \cup {row}
             /\ row.id = id /\ id > 0
             /\ row.status = "pending"
             /\ row.user_id = r.UserID
             /\ IF exact THEN 10 * row.total = r.Total
                         ELSE 10 * row.total - r.Total \in -4..5
       /\ Cardinality(orders') = Cardinality(orders) + 1
       /\ order_items' = order_items \o
             [i \in 1..Len(r.Items) |->
                [order_id |-> id, product_id |-> r.Items[i].ProductID, quantity |-> r.Items[i].Quantity]]
       /\ oresp'.handler = "create" /\ oresp'.status = StatusCreated
       /\ oresp'.body.id = id
       /\ oresp'.body.status = "pending"
       /\ oresp'.body.user_id = r.UserID
       /\ oresp'.body.total = r.Total
       /\ oresp'.body.items =
             [i \in 1..Len(r.Items) |->
                [product_id |-> r.Items[i].ProductID, quantity |-> r.Items[i].Quantity]]

\* C2 (as amended): when no store step fails, exactly one order row is committed, with
\* the new store-assigned id, status "pending", the caller's user_id and the caller's
\* total rounded to two decimals (the column is DECIMAL(10, 2)), together with one
\* order_items row per input item, in input order; the response is 201 with that id,
\* status "pending", the caller's total and the input items unchanged.
C2_CreateCommits ==
    [][\A w \in OrderWorkers :
         createOrderHandler_Commit(w, TRUE) => CommittedAs(w, FALSE)]_vars

\* C2 as stated: the row committed holds the caller's total.
C2_RowHoldsCallersTotal ==
    [][\A w \in OrderWorkers :
         createOrderHandler_Commit(w, TRUE) => CommittedAs(w, TRUE)]_vars

\* C2 witness: the last response is the 201 of an order of two items whose row and two
\* item rows are in the tables, the row's total being the rounded one
C2_Witness ==
    /\ oresp.handler = "create" /\ oresp.status = StatusCreated
    /\ Len(oresp.body.items) = 2
    /\ \E o \in orders : o.id = oresp.body.id /\ 10 * o.total # oresp.body.total
    /\ Len(ItemsOfOrder(oresp.body.id)) = 2

\* the bodies that decode and fail the validation of createOrderHandler
IncompleteBodies == {body \in OrderBodies \ {BadBody} : body.user_id = "" \/ Len(body.items) = 0}

\* C3: POST /orders with an empty user_id or an empty items array is answered 400
\* "User ID and items are required" before any transaction is begun: nothing is written.
C3_ValidationRejects ==
    [][\A w \in OrderWorkers, body \in IncompleteBodies, ok \in BOOLEAN :
         createOrderHandler_Begin(w, body, ok)
            => /\ oresp' = Response("create", StatusBadRequest, ErrorBody("User ID and items are required"))
               /\ opc'[w] = "idle" /\ tx'[w] = NoTx
               /\ \A x \in OrderWorkers : tx'[x] = tx[x]
               /\ <<orders, order_items, seq, clock>>' = <<orders, order_items, seq, clock>>]_vars

\* C3 witness: a request was rejected with that 400 while the tables hold an order
C3_Witness ==
    /\ oresp = Response("create", StatusBadRequest, ErrorBody("User ID and items are required"))
    /\ orders # {}

\* the orders of a list are newest first
NewestFirst(os) == \A i, j \in 1..Len(os) : i < j => os[i].CreatedAt >= os[j].CreatedAt

\* C8 (as amended): in getUserOrdersHandler a failing item query is swallowed, the
\* request goes on and answers 200, but the order whose items could not be read is left
\* out of the result; the orders returned are those of the user's committed orders whose
\* item query succeeded, each with its item rows, newest first.
C8_ListSkipsFailedOrders ==
    /\ [](\A w \in OrderWorkers :
            opc[w] = "listRows" =>
               /\ IdsOfOrders(result[w]) \subseteq {rows[w].set[i].id : i \in 1..(rows[w].next - 1)}
               /\ Len(result[w]) = Cardinality(IdsOfOrders(result[w]))
               /\ NewestFirst(result[w])
               /\ \A i \in 1..Len(result[w]) :
                     /\ result[w][i].UserID = oreq[w].userID
                     /\ \E o \in orders : o.id = result[w][i].ID /\ o.status = result[w][i].Status
                     /\ Len(result[w][i].Items) =
                          Cardinality({k \in 1..Len(order_items) : order_items[k].order_id = result[w][i].ID})
                     /\ Len(result[w][i].Items) > 0)
    /\ [][\A w \in OrderWorkers :
            /\ \A u \in OrderUsers :
                 getUserOrdersHandler_Query(w, u, TRUE)
                    => /\ IdsOfRows(rows'[w].set) = {o.id : o \in {x \in orders : x.user_id = u}}
                       /\ Len(rows'[w].set) = Cardinality(IdsOfRows(rows'[w].set))
            /\ getUserOrdersHandler_Items(w, FALSE)
                 => /\ result'[w] = result[w]
                    /\ opc'[w] = "listRows"
                    /\ oresp' = oresp
            /\ getUserOrdersHandler_Items(w, TRUE)
                 => /\ Len(result'[w]) = Len(result[w]) + 1
                    /\ result'[w][Len(result'[w])].ID = rows[w].set[rows[w].next].id
            /\ getUserOrdersHandler_Encode(w)
                 => oresp' = Response("list", StatusOK, EncodeOrders(result[w]))]_vars

\* C8 as stated: the order whose item query failed is still returned: the response holds
\* every order the query found.
C8_ListKeepsEveryOrder ==
    [][\A w \in OrderWorkers :
         getUserOrdersHandler_Encode(w) =>
            /\ oresp'.status = StatusOK
            /\ IdsOfRows(oresp'.body.array) = IdsOfRows(rows[w].set)]_vars

\* C8 witness: a list request has gone through the two orders of its user, the item
\* query of one failed, and it holds the other alone
C8_Witness ==
    \E w \in OrderWorkers :
        /\ opc[w] = "listRows"
        /\ Len(rows[w].set) = 2
        /\ rows[w].next = 3
        /\ Len(result[w]) = 1

\* the bodies that pass the validation of createOrderHandler
CompleteBodies == {body \in OrderBodies \ {BadBody} : body.user_id # "" /\ Len(body.items) # 0}

\* a step in which a store call of createOrderHandler fails
CreateFails(w) ==
    \/ \E body \in CompleteBodies : createOrderHandler_Begin(w, body, FALSE)
    \/ CreateFailsInTx(w)

\* the 500 of createOrderHandler with the given message
Create500(msg) == Response("create", StatusInternalServerError, ErrorBody(msg))

\* C9 (as amended): every store failure of POST /orders is answered 500, with a message
\* that depends on the step: "Failed to create order" for begin and for the order-header
\* insert, "Failed to create order items" for an item insert, "Failed to commit order"
\* for the commit; the caller cannot tell begin from the header insert, and can tell
\* the other steps apart.
C9_FailureMessages ==
    [][\A w \in OrderWorkers :
         /\ \A body \in CompleteBodies :
               createOrderHandler_Begin(w, body, FALSE) => oresp' = Create500("Failed to create order")
         /\ \A burn \in BOOLEAN :
               createOrderHandler_InsertOrder(w, FALSE, burn) => oresp' = Create500("Failed to create order")
         /\ createOrderHandler_InsertItem(w, FALSE) => oresp' = Create500("Failed to create order items")
         /\ createOrderHandler_Commit(w, FALSE) => oresp' = Create500("Failed to commit order")]_vars

\* C9 as stated: the response is the same whichever step failed (the one of a failing begin).
C9_FailuresIndistinguishable ==
    [][\A w \in OrderWorkers :
         CreateFails(w) =>
            oresp' = Create500("Failed to create order")]_vars

\* C9 witness: a creation was answered the 500 of a failed commit
C9_Witness == oresp = Create500("Failed to commit order")
====
